---- MODULE Spec2Model ----
(***************************************************************************)
(* Six-step BLDC commutation (software/motorBldc.c).                       *)
(*                                                                         *)
(* Two execution contexts share BLDC_motor: the foreground (application    *)
(* calls, one statement per step, position in pc) and the ADC conversion   *)
(* complete interrupt BLDC_adcInterrupt, which runs to completion and may  *)
(* fire between any two foreground statements.                             *)
(*                                                                         *)
(* A uint32_t millisecond value v is held as the integer congruent to v    *)
(* modulo 2^32 that lies in -2^31 .. 2^31-1 (so 2^32-2 is held as -2).     *)
(* Sums of the small values used here never leave that range, hence plain  *)
(* + is addition modulo 2^32; the unsigned order is U32Lt.                 *)
(***************************************************************************)
EXTENDS Integers, Sequences, FiniteSets, TLC

VARIABLES
    BLDC_motor,     \* the _bldc_motor aggregate
    BLDC_command,   \* the _bldc_motor_command aggregate
    pwm,            \* what MPWM_setPhaseDutyCycle last programmed, per phase
    now,            \* the millisecond timer (MSTMR_getMilliSeconds)
    pc,             \* position of the foreground context
    reg,            \* foreground register holding the sector loaded by ++/--
    call            \* history: the current (or just returned) foreground call

vars == <<BLDC_motor, BLDC_command, pwm, now, pc, reg, call>>

----------------------------------------------------------------------------
(* Bounds of the model *)

\* the clock is not advanced beyond this value
MaxTime == 27
\* the clock may start this many milliseconds before it wraps at 2^32
WrapLead == 2

\* the clock advances by one of these amounts
TickSteps == {25, 26}
\* values of the millisecond timer at which the program may be initialised
ClockStarts == {0, 0 - WrapLead}
\* duty cycles the application commands
DutyValues == {5000}
\* values read at address 0
NullSamples == {0, 4}
\* the voltages of phases A, B and C that one conversion returns
AdcTriples == {<<2, 4, 6>>}
\* bus voltages the ADC returns (neutral is half of it)
BusSamples == {2, 4, 8, 12, 14}
\* lock-expiry times drawn when the motor state is drawn freely
LockTimes == {-1, 25}

----------------------------------------------------------------------------
(* Enumerations of motorBldc.h and mpwm.h *)

BLDC_STOPPED == "BLDC_STOPPED"
BLDC_STARTING == "BLDC_STARTING"
BLDC_RUNNING == "BLDC_RUNNING"
BLDC_LOCKED == "BLDC_LOCKED"
States == {BLDC_STOPPED, BLDC_STARTING, BLDC_RUNNING, BLDC_LOCKED}

BLDC_POS == "BLDC_POS"
BLDC_NEG == "BLDC_NEG"
Directions == {BLDC_POS, BLDC_NEG}

BLDC_SENSORLESS == "BLDC_SENSORLESS"
BLDC_HALL == "BLDC_HALL"

MPWM_PH_A == "MPWM_PH_A"
MPWM_PH_B == "MPWM_PH_B"
MPWM_PH_C == "MPWM_PH_C"
Phases == {MPWM_PH_A, MPWM_PH_B, MPWM_PH_C}

MPWM_DORMANT == "MPWM_DORMANT"
MPWM_HI_STATE == "MPWM_HI_STATE"

\* the fixed startup duty cycle
BLDC_MIN_DUTY_CYCLE == 6553

\* values of BLDC_motor.dormantPhasePtr
NULL == "NULL"
PtrPhaseA == "&phaseA"
PtrPhaseB == "&phaseB"
PtrPhaseC == "&phaseC"

----------------------------------------------------------------------------
(* Tables *)

hallToSector ==
    << <<6,1,3,2,5,0,4,6>>,
       <<6,0,2,1,4,5,3,6>>,
       <<6,5,1,0,3,4,2,6>>,
       <<6,4,0,5,2,3,1,6>>,
       <<6,3,5,4,1,2,0,6>>,
       <<6,2,4,3,0,1,5,6>>,
       <<6,4,2,3,0,5,1,6>>,
       <<6,3,1,2,5,4,0,6>>,
       <<6,2,0,1,4,3,5,6>>,
       <<6,1,5,0,3,2,4,6>>,
       <<6,0,4,5,2,1,3,6>>,
       <<6,5,3,4,1,0,2,6>> >>

hallTableUtilized == 0

hiPhaseTable == <<MPWM_PH_A, MPWM_PH_A, MPWM_PH_B, MPWM_PH_B, MPWM_PH_C, MPWM_PH_C>>
loPhaseTable_sectors4and5Swapped == <<MPWM_PH_B, MPWM_PH_C, MPWM_PH_C, MPWM_PH_A, MPWM_PH_B, MPWM_PH_A>>
loPhaseTable == <<MPWM_PH_B, MPWM_PH_C, MPWM_PH_C, MPWM_PH_A, MPWM_PH_A, MPWM_PH_B>>
dormantPhaseTable == <<MPWM_PH_C, MPWM_PH_B, MPWM_PH_A, MPWM_PH_C, MPWM_PH_B, MPWM_PH_A>>

\* table[sector] of a 6-entry C array; an index outside 0..5 reads past the
\* array, which no reachable state does (SectorIndexInRange)
TableAt(table, sector) ==
    IF sector \in 0..5 THEN table[sector + 1] ELSE "OUT_OF_BOUNDS"

----------------------------------------------------------------------------
(* Arithmetic *)

\* a value truncated to uint16_t
U16(x) == x % 65536

\* a < b on uint32_t values (see the representation above)
U32Lt(a, b) ==
    IF (a >= 0) = (b >= 0) THEN a < b ELSE a >= 0

\* the stall timeout of the startup ramp, in milliseconds
StallTimeout == 25

\* the duty cycle not halved
halfDutyCycle_notHalved(dutyCycle) == dutyCycle

\* lines 339-341
halfDutyCycle(dutyCycle) == dutyCycle \div 2
highSideDutyCycle(dutyCycle) == U16(32767 + halfDutyCycle(dutyCycle))
lowSideDutyCycle(dutyCycle) == U16(32767 - halfDutyCycle(dutyCycle))

----------------------------------------------------------------------------
(* Collaborators *)

\* MPWM_setPhaseDutyCycle(phase, mode, duty)
MPWM_setPhaseDutyCycle(p, phase, mode, duty) ==
    IF phase \in Phases
    THEN [p EXCEPT ![phase] = [mode |-> mode, duty |-> duty]]
    ELSE p

AllDormant == [ph \in Phases |-> [mode |-> MPWM_DORMANT, duty |-> 0]]

----------------------------------------------------------------------------
(* BLDC_commutate, statement by statement *)

\* lines 307-320, the stored value of ++sector / --sector
SteppedSector(sector, direction) ==
    IF direction = BLDC_POS THEN sector + 1 ELSE sector - 1

\* the range test off by one
SectorWraps_offByOne(stepped, direction) ==
    IF direction = BLDC_POS THEN stepped >= 5 ELSE stepped <= 0

\* lines 309 and 316, the range test on the stepped value
SectorWraps(stepped, direction) ==
    IF direction = BLDC_POS THEN stepped > 5 ELSE stepped < 0

\* both directions wrapping to sector 0
WrappedSector_alwaysZero(direction) == 0

\* lines 311 and 318
WrappedSector(direction) ==
    IF direction = BLDC_POS THEN 0 ELSE 5

\* lines 307-320 as a whole
AdvanceSector(sector, direction) ==
    IF SectorWraps(SteppedSector(sector, direction), direction)
    THEN WrappedSector(direction)
    ELSE SteppedSector(sector, direction)

\* line 344
ProgramDormant(m, p) ==
    MPWM_setPhaseDutyCycle(p, TableAt(dormantPhaseTable, m.sector),
                           MPWM_DORMANT, m.dutyCycle)

\* line 345
ProgramHigh(m, p) ==
    MPWM_setPhaseDutyCycle(p, TableAt(hiPhaseTable, m.sector),
                           MPWM_HI_STATE, highSideDutyCycle(m.dutyCycle))

\* line 346
ProgramLow(m, p) ==
    MPWM_setPhaseDutyCycle(p, TableAt(loPhaseTable, m.sector),
                           MPWM_HI_STATE, lowSideDutyCycle(m.dutyCycle))

\* lines 351-376
DormantRef(sector) ==
    LET ph == TableAt(dormantPhaseTable, sector)
    IN CASE ph = MPWM_PH_A -> PtrPhaseA
         [] ph = MPWM_PH_B -> PtrPhaseB
         [] ph = MPWM_PH_C -> PtrPhaseC
         [] OTHER -> NULL

\* lines 378-381
StampCommutation(m, t) ==
    IF m.state = BLDC_STARTING
    THEN [m EXCEPT !.startCommutationTimeAbs = t]
    ELSE m

\* BLDC_commutate run without interruption (as the interrupt handler runs it)
BLDC_commutate(m, p, t) ==
    LET m1 == [m EXCEPT !.sector = AdvanceSector(m.sector, m.direction)]
        p1 == ProgramLow(m1, ProgramHigh(m1, ProgramDormant(m1, p)))
        m2 == [m1 EXCEPT !.dormantPhasePtr = DormantRef(m1.sector)]
    IN [motor |-> StampCommutation(m2, t), pwm |-> p1]

----------------------------------------------------------------------------
(* BLDC_adcInterrupt *)

\* *BLDC_motor.dormantPhasePtr; through a null pointer the value read is
\* whatever lies at address 0 (atNull)
Deref(m, atNull) ==
    CASE m.dormantPhasePtr = PtrPhaseA -> m.phaseA
      [] m.dormantPhasePtr = PtrPhaseB -> m.phaseB
      [] m.dormantPhasePtr = PtrPhaseC -> m.phaseC
      [] OTHER -> atNull

\* lines 451-464
ZeroCrossing(m, neutralVoltage, atNull) ==
    IF m.sector % 2 = 1
    THEN Deref(m, atNull) < neutralVoltage
    ELSE Deref(m, atNull) > neutralVoltage

\* line 469
StallTimedOut(m, t) ==
    U32Lt(m.startCommutationTimeAbs + StallTimeout, t)

\* the lock expiring at its expiry time instead of after it
LockExpired_atExpiry(m, t) ==
    U32Lt(m.lockUntilTimeAbs, t) \/ m.lockUntilTimeAbs = t

\* line 433
LockExpired(m, t) ==
    U32Lt(m.lockUntilTimeAbs, t)

\* the startup ramp promoting the motor to BLDC_RUNNING at its first
\* zero crossing
StartingCase_promotes(m, p, neutralVoltage, t, atNull) ==
    LET zc == ZeroCrossing(m, neutralVoltage, atNull)
        s1 == IF zc THEN BLDC_commutate(m, p, t) ELSE [motor |-> m, pwm |-> p]
        to == StallTimedOut(s1.motor, t)
        s2 == IF to THEN BLDC_commutate(s1.motor, s1.pwm, t) ELSE s1
    IN [motor |-> IF zc THEN [s2.motor EXCEPT !.state = BLDC_RUNNING]
                  ELSE s2.motor,
        pwm |-> s2.pwm,
        comm |-> (IF zc THEN 1 ELSE 0) + (IF to THEN 1 ELSE 0)]

\* lines 447-479
StartingCase(m, p, neutralVoltage, t, atNull) ==
    LET zc == ZeroCrossing(m, neutralVoltage, atNull)
        s1 == IF zc THEN BLDC_commutate(m, p, t) ELSE [motor |-> m, pwm |-> p]
        to == StallTimedOut(s1.motor, t)
        s2 == IF to THEN BLDC_commutate(s1.motor, s1.pwm, t) ELSE s1
    IN [motor |-> s2.motor, pwm |-> s2.pwm,
        comm |-> (IF zc THEN 1 ELSE 0) + (IF to THEN 1 ELSE 0)]

\* lines 429-439
LockedCase(m, p, t) ==
    [motor |-> IF LockExpired(m, t) THEN [m EXCEPT !.state = BLDC_STOPPED] ELSE m,
     pwm |-> p, comm |-> 0]

\* lines 427-494
AdcDispatch(m, p, neutralVoltage, t, atNull) ==
    CASE m.state = BLDC_LOCKED -> LockedCase(m, p, t)
      [] m.state = BLDC_STARTING -> StartingCase(m, p, neutralVoltage, t, atNull)
      [] OTHER -> [motor |-> m, pwm |-> p, comm |-> 0]

----------------------------------------------------------------------------
(* History *)

\* call describes the foreground call in progress, or the one that has
\* returned and was not yet followed by a sampling event or another call: its
\* name, the motor state it was made in, the commutations it has issued, and
\* the sector that BLDC_determineSector left (-1: it has not run)
Enter(op) == [op |-> op, st |-> BLDC_motor.state, comm |-> 0, det |-> -1]

NoCall == [op |-> "none", st |-> "none", comm |-> 0, det |-> -1]

----------------------------------------------------------------------------
(* Initial states *)

ZeroTable == <<0, 0, 0, 0, 0, 0, 0, 0>>

\* BLDC_initPositionSensors on the Hall code read from the three pins
InitPositionSensors(m, hallValue) ==
    IF hallValue # 0 /\ hallValue # 7
    THEN [m EXCEPT !.sensor = BLDC_HALL,
                   !.hallToSector = hallToSector[hallTableUtilized + 1]]
    ELSE m

\* the zero-initialised aggregate after BLDC_stopMotor (line 86). The zero
\* value of the sensor kind is BLDC_SENSORLESS (the kind "stays Sensorless"
\* when no valid Hall code is read); which direction the zero value is
\* depends on motorBldc.h, so both are initial values
ZeroMotor(direction) ==
    [state |-> BLDC_STOPPED, sector |-> 0, dutyCycle |-> 0,
     startTimeAbs |-> 0, startCommutationTimeAbs |-> 0, lockUntilTimeAbs |-> 0,
     phaseA |-> 0, phaseB |-> 0, phaseC |-> 0,
     dormantPhasePtr |-> NULL, direction |-> direction,
     sensor |-> BLDC_SENSORLESS, hallToSector |-> ZeroTable]

\* the state when BLDC_initMotor returns on the zero-initialised globals
Init ==
    /\ \E direction \in Directions, hallValue \in 0..7 :
          BLDC_motor = InitPositionSensors(ZeroMotor(direction), hallValue)
    /\ BLDC_command = [direction |-> BLDC_POS, dutyCycle |-> 0]
    /\ pwm = AllDormant
    /\ now \in ClockStarts
    /\ pc = "idle"
    /\ reg = 0
    /\ call = NoCall

----------------------------------------------------------------------------
(* Foreground steps *)

\* one foreground statement of the call `op`
Foreground(nextPc, m, p, r, c) ==
    /\ BLDC_motor' = m
    /\ pwm' = p
    /\ reg' = r
    /\ pc' = nextPc
    /\ call' = c
    /\ UNCHANGED <<BLDC_command, now>>

\* the guard refusing a start only while the motor runs
StartAllowed_unlessRunning(m) == m.state # BLDC_RUNNING

\* line 159
StartAllowed(m) == m.state = BLDC_STOPPED

\* BLDC_startMotor is called: line 159
BLDC_startMotor ==
    /\ pc = "idle"
    /\ Foreground(IF StartAllowed(BLDC_motor) THEN "start161" ELSE "idle",
                  BLDC_motor, pwm, reg, Enter("startMotor"))

Start161 ==
    /\ pc = "start161"
    /\ Foreground("start162",
                  [BLDC_motor EXCEPT !.sector = 0], pwm, reg, call)

Start162 ==
    /\ pc = "start162"
    /\ Foreground("start164",
                  [BLDC_motor EXCEPT !.state = BLDC_STARTING], pwm, reg, call)

Start164 ==
    /\ pc = "start164"
    /\ Foreground("start166",
                  [BLDC_motor EXCEPT !.startTimeAbs = now], pwm, reg, call)

\* the commanded duty cycle taken over at start
StartupDutyCycle_commanded(commanded) == commanded

\* line 166
StartupDutyCycle(commanded) == BLDC_MIN_DUTY_CYCLE

Start166 ==
    /\ pc = "start166"
    /\ Foreground("start167",
                  [BLDC_motor EXCEPT
                      !.dutyCycle = StartupDutyCycle(BLDC_command.dutyCycle)],
                  pwm, reg, call)

Start167 ==
    /\ pc = "start167"
    /\ Foreground("start169",
                  [BLDC_motor EXCEPT !.direction = BLDC_command.direction],
                  pwm, reg, call)

\* BLDC_determineSector, lines 218-244, on the Hall code read from the pins
BLDC_determineSector(m, hallValue) ==
    IF m.sensor = BLDC_HALL
    THEN [m EXCEPT !.sector = m.hallToSector[hallValue + 1]]
    ELSE m

\* line 169
Start169 ==
    /\ pc = "start169"
    /\ \E hallValue \in 0..7 :
          LET m == BLDC_determineSector(BLDC_motor, hallValue)
          IN Foreground("comm309",
                        m, pwm, reg,
                        [call EXCEPT !.det = m.sector])

\* lines 309 and 316: the read of ++sector / --sector
Comm309 ==
    /\ pc = "comm309"
    /\ Foreground("comm309w", BLDC_motor, pwm,
                  BLDC_motor.sector, call)

\* lines 309 and 316: the write of ++sector / --sector, and the range test
Comm309w ==
    /\ pc = "comm309w"
    /\ LET stepped == SteppedSector(reg, BLDC_motor.direction)
       IN Foreground(IF SectorWraps(stepped, BLDC_motor.direction)
                     THEN "comm311" ELSE "comm344",
                     [BLDC_motor EXCEPT !.sector = stepped], pwm, 0, call)

\* lines 311 and 318
Comm311 ==
    /\ pc = "comm311"
    /\ Foreground("comm344",
                  [BLDC_motor EXCEPT
                      !.sector = WrappedSector(BLDC_motor.direction)],
                  pwm, reg, call)

Comm344 ==
    /\ pc = "comm344"
    /\ Foreground("comm345",
                  BLDC_motor, ProgramDormant(BLDC_motor, pwm), reg, call)

Comm345 ==
    /\ pc = "comm345"
    /\ Foreground("comm346",
                  BLDC_motor, ProgramHigh(BLDC_motor, pwm), reg, call)

Comm346 ==
    /\ pc = "comm346"
    /\ Foreground("comm351",
                  BLDC_motor, ProgramLow(BLDC_motor, pwm), reg, call)

Comm351 ==
    /\ pc = "comm351"
    /\ Foreground("comm378",
                  [BLDC_motor EXCEPT
                      !.dormantPhasePtr = DormantRef(BLDC_motor.sector)],
                  pwm, reg, call)

\* lines 378-381, and the return to the caller of BLDC_startMotor
Comm378 ==
    /\ pc = "comm378"
    /\ Foreground("idle",
                  StampCommutation(BLDC_motor, now), pwm, reg,
                  [call EXCEPT !.comm = @ + 1])

\* the phase made dormant with its duty left as it was
StopPhase_keepDuty(p, phase) ==
    MPWM_setPhaseDutyCycle(p, phase, MPWM_DORMANT, p[phase].duty)

\* lines 192-194, one phase each
StopPhase(p, phase) == MPWM_setPhaseDutyCycle(p, phase, MPWM_DORMANT, 0)

\* line 197
StopState(m) == [m EXCEPT !.state = BLDC_STOPPED]

\* BLDC_stopMotor is called: line 192
BLDC_stopMotor ==
    /\ pc = "idle"
    /\ Foreground("stop193",
                  BLDC_motor, StopPhase(pwm, MPWM_PH_A), reg, Enter("stopMotor"))

Stop193 ==
    /\ pc = "stop193"
    /\ Foreground("stop194",
                  BLDC_motor, StopPhase(pwm, MPWM_PH_B), reg, call)

Stop194 ==
    /\ pc = "stop194"
    /\ Foreground("stop197",
                  BLDC_motor, StopPhase(pwm, MPWM_PH_C), reg, call)

Stop197 ==
    /\ pc = "stop197"
    /\ Foreground("idle", StopState(BLDC_motor), pwm, reg, call)

\* BLDC_commandDutyCycle(dutyCycle)
BLDC_commandDutyCycle ==
    /\ pc = "idle"
    /\ \E dutyCycle \in DutyValues :
          BLDC_command' = [BLDC_command EXCEPT !.dutyCycle = dutyCycle]
    /\ call' = Enter("commandDutyCycle")
    /\ UNCHANGED <<BLDC_motor, pwm, now, pc, reg>>

\* the direction written to the motor as well (the "Globals affected" note
\* of BLDC_commandDirection names BLDC_motor.direction)
CommandedDirection_toMotor(m, c, direction) ==
    [motor |-> [m EXCEPT !.direction = direction],
     command |-> [c EXCEPT !.direction = direction]]

\* line 286
CommandedDirection(m, c, direction) ==
    [motor |-> m, command |-> [c EXCEPT !.direction = direction]]

\* BLDC_commandDirection(direction)
BLDC_commandDirection ==
    /\ pc = "idle"
    /\ \E direction \in Directions :
          LET r == CommandedDirection(BLDC_motor, BLDC_command, direction)
          IN /\ BLDC_command' = r.command
             /\ BLDC_motor' = r.motor
    /\ call' = Enter("commandDirection")
    /\ UNCHANGED <<pwm, now, pc, reg>>

\* BLDC_initMotor is called again: line 86, the first statement of BLDC_stopMotor
BLDC_initMotor ==
    /\ pc = "idle"
    /\ Foreground("init193",
                  BLDC_motor, StopPhase(pwm, MPWM_PH_A), reg, Enter("initMotor"))

Init193 ==
    /\ pc = "init193"
    /\ Foreground("init194",
                  BLDC_motor, StopPhase(pwm, MPWM_PH_B), reg, call)

Init194 ==
    /\ pc = "init194"
    /\ Foreground("init197",
                  BLDC_motor, StopPhase(pwm, MPWM_PH_C), reg, call)

Init197 ==
    /\ pc = "init197"
    /\ Foreground("init87", StopState(BLDC_motor), pwm, reg, call)

\* line 87
Init87 ==
    /\ pc = "init87"
    /\ BLDC_command' = [BLDC_command EXCEPT !.direction = BLDC_POS]
    /\ pc' = "init89"
    /\ UNCHANGED <<BLDC_motor, pwm, now, reg, call>>

\* line 89, and the return
Init89 ==
    /\ pc = "init89"
    /\ \E hallValue \in 0..7 :
          Foreground("idle",
                     InitPositionSensors(BLDC_motor, hallValue), pwm, reg, call)

----------------------------------------------------------------------------
(* The sampling context and the clock *)

\* one ADC conversion-complete interrupt, lines 416-497
BLDC_adcInterrupt ==
    \E v \in AdcTriples, atNull \in NullSamples, vBus \in BusSamples :
        LET m == [BLDC_motor EXCEPT !.phaseA = v[1], !.phaseB = v[2],
                                    !.phaseC = v[3]]
            r == AdcDispatch(m, pwm, vBus \div 2, now, atNull)
        IN /\ BLDC_motor' = r.motor
           /\ pwm' = r.pwm
           /\ call' = IF pc = "idle" THEN NoCall ELSE call
           /\ UNCHANGED <<BLDC_command, now, pc, reg>>

\* the millisecond timer advances
Tick ==
    /\ \E d \in TickSteps :
          /\ now + d <= MaxTime
          /\ now' = now + d
    /\ UNCHANGED <<BLDC_motor, BLDC_command, pwm, pc, reg, call>>

----------------------------------------------------------------------------

\* the foreground context executes its next statement, or the application
\* makes its next call
ForegroundStep ==
    \/ BLDC_startMotor \/ Start161 \/ Start162 \/ Start164 \/ Start166
    \/ Start167 \/ Start169
    \/ Comm309 \/ Comm309w \/ Comm311 \/ Comm344 \/ Comm345 \/ Comm346
    \/ Comm351 \/ Comm378
    \/ BLDC_stopMotor \/ Stop193 \/ Stop194 \/ Stop197
    \/ BLDC_commandDutyCycle \/ BLDC_commandDirection
    \/ BLDC_initMotor \/ Init193 \/ Init194 \/ Init197 \/ Init87 \/ Init89

\* a sampling event that falls between two foreground calls
SampleBetweenCalls ==
    /\ pc = "idle"
    /\ BLDC_adcInterrupt

\* the program: the interrupt handler preempts the foreground anywhere
Next == ForegroundStep \/ BLDC_adcInterrupt \/ Tick

Spec == Init /\ [][Next]_vars

\* the program when no sampling event falls inside a foreground call
NextSeq == ForegroundStep \/ SampleBetweenCalls \/ Tick

SpecSeq == Init /\ [][NextSeq]_vars

\* the outputs BLDC_commutate programs for a sector
Driven(sector, dutyCycle) ==
    LET m == [sector |-> sector, dutyCycle |-> dutyCycle]
    IN ProgramLow(m, ProgramHigh(m, ProgramDormant(m, AllDormant)))

\* the operations applied to a motor aggregate drawn freely: every state of
\* the state machine (BLDC_LOCKED and BLDC_RUNNING included), every sector,
\* both directions and sensor kinds, a lock-expiry time before and after the
\* clock, outputs either dormant or driving the sector
InitAny ==
    /\ \E state \in States, sector \in 0..5, direction \in Directions,
          lockUntilTimeAbs \in LockTimes, hallValue \in {0, 1} :
          BLDC_motor =
              [InitPositionSensors(ZeroMotor(direction), hallValue) EXCEPT
                  !.state = state, !.sector = sector,
                  !.dutyCycle = BLDC_MIN_DUTY_CYCLE,
                  !.lockUntilTimeAbs = lockUntilTimeAbs,
                  !.dormantPhasePtr = DormantRef(sector)]
    /\ BLDC_command = [direction |-> BLDC_POS, dutyCycle |-> 0]
    /\ pwm \in {AllDormant, Driven(BLDC_motor.sector, BLDC_MIN_DUTY_CYCLE)}
    /\ now \in ClockStarts
    /\ pc = "idle"
    /\ reg = 0
    /\ call = NoCall

SpecAny == InitAny /\ [][NextSeq]_vars

\* duty cycles over the whole uint16_t range, with both ends and the middle
DutySamples == {0, 1, BLDC_MIN_DUTY_CYCLE, 32767, 32768, 65534, 65535}

\* the startup ramp running at a duty cycle drawn from the uint16_t range, in
\* any sector and either direction
InitDuty ==
    /\ \E sector \in 0..5, direction \in Directions,
          dutyCycle \in DutySamples :
          /\ BLDC_motor =
                [ZeroMotor(direction) EXCEPT
                    !.state = BLDC_STARTING, !.sector = sector,
                    !.dutyCycle = dutyCycle,
                    !.dormantPhasePtr = DormantRef(sector)]
          /\ pwm = Driven(sector, dutyCycle)
    /\ BLDC_command = [direction |-> BLDC_POS, dutyCycle |-> 0]
    /\ now = 0
    /\ pc = "idle"
    /\ reg = 0
    /\ call = NoCall

SpecDuty == InitDuty /\ [][NextSeq]_vars

----------------------------------------------------------------------------
(* Properties *)

\* every index into the 6-entry phase tables is within 0..5: in the
\* foreground BLDC_commutate at lines 344-351, and in the handler's
\* BLDC_commutate after the advance of lines 307-320
SectorIndexInRange ==
    /\ pc \in {"comm344", "comm345", "comm346", "comm351"}
          => BLDC_motor.sector \in 0..5
    /\ BLDC_motor.state = BLDC_STARTING
          => AdvanceSector(BLDC_motor.sector, BLDC_motor.direction) \in 0..5

\* the positions of the foreground inside BLDC_startMotor after line 162
StartInProgress ==
    {"start164", "start166", "start167", "start169", "comm309", "comm309w",
     "comm311", "comm344", "comm345", "comm346", "comm351", "comm378"}

\* the call `op` has returned, and neither a sampling event nor another call
\* has followed
Returned(op) == pc = "idle" /\ call.op = op

\* C1: once BLDC_stopMotor has returned (and nothing has followed), the state
\* is Stopped and all three phases are dormant with zero duty, in every
\* interleaving with the sampling handler
C1_StopSafeUnderPreemption ==
    Returned("stopMotor")
        => BLDC_motor.state = BLDC_STOPPED /\ pwm = AllDormant

\* C2: a BLDC_startMotor call made in a state other than Stopped returns at
\* once, has changed nothing of the motor, the command and the programmed
\* outputs, and has issued no commutation
C2_StartIsNoOpUnlessStopped ==
    [][(pc = "idle" /\ call' = Enter("startMotor")
           /\ BLDC_motor.state # BLDC_STOPPED)
        => /\ pc' = "idle"
           /\ call'.comm = 0
           /\ UNCHANGED <<BLDC_motor, BLDC_command, pwm>>]_vars

\* C2 witness: a start called while Locked has returned, the motor still Locked
C2_Witness ==
    /\ Returned("startMotor")
    /\ call.st = BLDC_LOCKED
    /\ BLDC_motor.state = BLDC_LOCKED

\* C3: when BLDC_startMotor, called in Stopped with no sampling event inside
\* it, has returned: the state is Starting, the duty cycle is the fixed
\* startup value whatever was commanded, the direction is the commanded one
\* and one commutation has been issued
C3_StartFromStopped ==
    (Returned("startMotor") /\ call.st = BLDC_STOPPED)
        => /\ BLDC_motor.state = BLDC_STARTING
           /\ BLDC_motor.dutyCycle = BLDC_MIN_DUTY_CYCLE
           /\ BLDC_motor.direction = BLDC_command.direction
           /\ call.comm = 1

\* C3 witness: such a start has returned with duty 5000 and Negative commanded
C3_Witness ==
    /\ Returned("startMotor")
    /\ call.st = BLDC_STOPPED
    /\ BLDC_command = [direction |-> BLDC_NEG, dutyCycle |-> 5000]

\* the scenario of C4: Positive and 5000 commanded, then a start from Stopped
\* that has returned
C4_Scenario ==
    /\ Returned("startMotor")
    /\ call.st = BLDC_STOPPED
    /\ BLDC_command = [direction |-> BLDC_POS, dutyCycle |-> 5000]

\* C4 as claimed: in the scenario the sector on return is the value that
\* BLDC_determineSector left, one commutation having been issued
C4_SectorIsDetermined ==
    C4_Scenario => BLDC_motor.sector = call.det /\ call.comm = 1

\* C4 as amended: in the scenario (no sampling event inside the call) the
\* sector on return is one Positive step past the value d that
\* BLDC_determineSector left: d + 1, or 0 when d + 1 exceeds 5
C4_SectorIsOnePastDetermined ==
    C4_Scenario
        => /\ BLDC_motor.sector = IF call.det + 1 > 5 THEN 0 ELSE call.det + 1
           /\ call.comm = 1

\* C4 witness: Hall code 2 read (sector 3 by row 0), the start has returned
\* with sector 4
C4_Witness ==
    /\ C4_Scenario
    /\ BLDC_motor.sensor = BLDC_HALL
    /\ call.det = 3
    /\ BLDC_motor.sector = 4

\* C5: when BLDC_stopMotor, called in any state with no sampling event inside
\* it, has returned, the state is Stopped and all phases are dormant with
\* zero duty; and no statement of a BLDC_stopMotor executed on that outcome
\* changes the motor or the outputs (the second call yields what the first did)
C5_StopIdempotent ==
    /\ [](Returned("stopMotor")
            => BLDC_motor.state = BLDC_STOPPED /\ pwm = AllDormant)
    /\ [][(call'.op = "stopMotor" /\ BLDC_motor.state = BLDC_STOPPED
              /\ pwm = AllDormant)
            => UNCHANGED <<BLDC_motor, pwm>>]_vars

\* C5 witness: a stop called on a Running motor has returned
C5_Witness ==
    /\ Returned("stopMotor")
    /\ call.st = BLDC_RUNNING
    /\ BLDC_motor.state = BLDC_STOPPED
    /\ pwm = AllDormant

\* C6: the sector is within 0..5 in every reachable state
C6_SectorInRange ==
    BLDC_motor.sector \in 0..5

\* C7: BLDC_determineSector never leaves the sentinel 6 as the sector
C7_SentinelNeverProduced ==
    call.det # 6

\* C8: the sampling handler never runs in state Starting while BLDC_startMotor
\* is between its write of the state and its return
C8_StartIsAtomic ==
    [][(BLDC_motor.state = BLDC_STARTING /\ pc \in StartInProgress)
        => ~BLDC_adcInterrupt]_vars

\* C9: a sampling event in state Locked leaves the state Locked or makes it
\* Stopped, the latter only if the clock is strictly past the lock-expiry
\* time; otherwise it changes nothing but the sampled phase voltages
C9_LockedUntilExpiry ==
    [][(BLDC_motor.state = BLDC_LOCKED /\ BLDC_adcInterrupt)
        => /\ pwm' = pwm
           /\ BLDC_motor'.state \in {BLDC_LOCKED, BLDC_STOPPED}
           /\ BLDC_motor'.state = BLDC_STOPPED
                 => /\ now # BLDC_motor.lockUntilTimeAbs
                    /\ ~U32Lt(now, BLDC_motor.lockUntilTimeAbs)
           /\ BLDC_motor'.state = BLDC_LOCKED
                 => BLDC_motor' = [BLDC_motor EXCEPT
                                     !.phaseA = BLDC_motor'.phaseA,
                                     !.phaseB = BLDC_motor'.phaseB,
                                     !.phaseC = BLDC_motor'.phaseC]]_vars

\* C9 witness: the handler has sampled, the clock is at the lock-expiry time
\* and the motor is Locked
C9_Witness ==
    /\ BLDC_motor.state = BLDC_LOCKED
    /\ BLDC_motor.phaseA # 0
    /\ now = BLDC_motor.lockUntilTimeAbs

StallTimeElapsed(m, t) ==
    LET d == t - m.startCommutationTimeAbs
    IN d < 0 \/ d > 25

\* the motor aggregate with the phase voltages v sampled (lines 421-423)
Sampled(m, v) ==
    [m EXCEPT !.phaseA = v[1], !.phaseB = v[2], !.phaseC = v[3]]

\* C11: a sampling event in state Starting issues at most one commutation:
\* the sector stays or moves one cyclic step
C11_AtMostOneCommutation ==
    [][(BLDC_motor.state = BLDC_STARTING /\ BLDC_adcInterrupt)
        => BLDC_motor'.sector \in {BLDC_motor.sector,
                                   (BLDC_motor.sector + 1) % 6,
                                   (BLDC_motor.sector + 5) % 6}]_vars

\* C12: in state Starting a sampling event whose voltages meet no
\* zero-crossing condition issues one commutation if more than 25 ms have
\* elapsed since the last commutation, and none otherwise
C12_ForcedOnlyAfterTimeout ==
    (pc = "idle" /\ BLDC_motor.state = BLDC_STARTING)
        => \A v \in AdcTriples, vBus \in BusSamples, atNull \in NullSamples :
              LET m == Sampled(BLDC_motor, v)
                  r == StartingCase(m, pwm, vBus \div 2, now, atNull)
              IN ~ZeroCrossing(m, vBus \div 2, atNull)
                    => r.comm = IF StallTimeElapsed(m, now) THEN 1 ELSE 0

\* BLDC_initPositionSensors runs as the last step of BLDC_initMotor and
\* samples the Hall code hallValue
SensorInitReads(hallValue) ==
    /\ pc = "init89"
    /\ pc' = "idle"
    /\ BLDC_motor' = InitPositionSensors(BLDC_motor, hallValue)

\* C13: a sensor initialization that samples a Hall code in 1..6 selects
\* Hall and copies the configured row; one that samples 0 or 7 leaves the
\* sensor kind Sensorless; every row of the table maps the codes 1..6 to a
\* sector in 0..5
C13_HallOnlyForValidCode ==
    [][\A hallValue \in 0..7 :
          SensorInitReads(hallValue)
              => /\ hallValue \in 1..6
                     => /\ BLDC_motor'.sensor = BLDC_HALL
                        /\ BLDC_motor'.hallToSector
                              = hallToSector[hallTableUtilized + 1]
                 /\ hallValue \in {0, 7}
                     => BLDC_motor'.sensor = BLDC_SENSORLESS
                 /\ \A row \in 1..12, code \in 1..6 :
                       hallToSector[row][code + 1] \in 0..5]_vars

\* one cyclic step of the sector in the given direction
CyclicStep(sector, direction) ==
    IF direction = BLDC_POS THEN (sector + 1) % 6 ELSE (sector + 5) % 6

\* C14: a commutation moves a sector in 0..5 by exactly one cyclic step,
\* (sector+1) mod 6 for Positive and (sector+5) mod 6 for Negative: the
\* commutation the sampling handler would issue from the current state, and
\* the commutation BLDC_startMotor has issued from the determined sector
C14_OneCyclicStep ==
    /\ BLDC_motor.sector \in 0..5
          => BLDC_commutate(BLDC_motor, pwm, now).motor.sector
                = CyclicStep(BLDC_motor.sector, BLDC_motor.direction)
    /\ (Returned("startMotor") /\ call.st = BLDC_STOPPED /\ call.det \in 0..5)
          => BLDC_motor.sector = CyclicStep(call.det, BLDC_motor.direction)

\* BLDC_startMotor has commutated from sector 0 to sector 5 in direction
\* Negative
C14_Witness ==
    /\ Returned("startMotor")
    /\ call.st = BLDC_STOPPED
    /\ call.det = 0
    /\ BLDC_motor.direction = BLDC_NEG
    /\ BLDC_motor.sector = 5

\* the roles <<high, low, dormant>> of the phases in the sectors 0..5
RoleTable ==
    <<<<MPWM_PH_A, MPWM_PH_B, MPWM_PH_C>>, <<MPWM_PH_A, MPWM_PH_C, MPWM_PH_B>>,
      <<MPWM_PH_B, MPWM_PH_C, MPWM_PH_A>>, <<MPWM_PH_B, MPWM_PH_A, MPWM_PH_C>>,
      <<MPWM_PH_C, MPWM_PH_A, MPWM_PH_B>>, <<MPWM_PH_C, MPWM_PH_B, MPWM_PH_A>>>>

\* the outputs p give each phase the role it has in the sector: the high
\* phase driven with the high-side duty, the low phase with the low-side
\* duty, the third phase dormant, and no other phase dormant
RolesProgrammed(p, sector, dutyCycle) ==
    LET roles == RoleTable[sector + 1]
    IN /\ {roles[1], roles[2], roles[3]} = Phases
       /\ p[roles[1]] = [mode |-> MPWM_HI_STATE,
                         duty |-> highSideDutyCycle(dutyCycle)]
       /\ p[roles[2]] = [mode |-> MPWM_HI_STATE,
                         duty |-> lowSideDutyCycle(dutyCycle)]
       /\ p[roles[3]].mode = MPWM_DORMANT
       /\ Cardinality({ph \in Phases : p[ph].mode = MPWM_DORMANT}) = 1
       /\ Cardinality({ph \in Phases : p[ph].mode = MPWM_HI_STATE}) = 2

\* C15: in either direction a commutation programs the phases in the roles
\* the table gives for the sector after the advance, one phase dormant and
\* two driven: the commutation the sampling handler would issue from the
\* current state, and the commutation BLDC_startMotor has issued
C15_PhaseRoles ==
    /\ BLDC_motor.sector \in 0..5
          => LET r == BLDC_commutate(BLDC_motor, pwm, now)
             IN RolesProgrammed(r.pwm, r.motor.sector, BLDC_motor.dutyCycle)
    /\ (Returned("startMotor") /\ call.st = BLDC_STOPPED)
          => RolesProgrammed(pwm, BLDC_motor.sector, BLDC_motor.dutyCycle)

\* BLDC_startMotor has commutated into sector 5 in direction Negative:
\* phase C high, phase B low, phase A dormant
C15_Witness ==
    /\ Returned("startMotor")
    /\ call.st = BLDC_STOPPED
    /\ BLDC_motor.direction = BLDC_NEG
    /\ BLDC_motor.sector = 5
    /\ pwm[MPWM_PH_C].mode = MPWM_HI_STATE
    /\ pwm[MPWM_PH_B].mode = MPWM_HI_STATE
    /\ pwm[MPWM_PH_C].duty > pwm[MPWM_PH_B].duty
    /\ pwm[MPWM_PH_A].mode = MPWM_DORMANT

\* C16: a commutation at any duty cycle of the uint16_t range programs the
\* high phase with 32767 + (dutyCycle >> 1) and the low phase with
\* 32767 - (dutyCycle >> 1), both within 0..65535 as computed (nothing
\* wraps), and the two sum to 65534
C16_DutySplit ==
    [][(BLDC_motor.state = BLDC_STARTING
        /\ BLDC_motor'.sector # BLDC_motor.sector
        /\ BLDC_motor'.sector \in 0..5
        /\ BLDC_adcInterrupt)
        => LET roles == RoleTable[BLDC_motor'.sector + 1]
               highSideDuty == pwm'[roles[1]].duty
               lowSideDuty == pwm'[roles[2]].duty
               halfDuty == BLDC_motor.dutyCycle \div 2
           IN /\ BLDC_motor.dutyCycle \in 0..65535
              /\ highSideDuty = 32767 + halfDuty
              /\ lowSideDuty = 32767 - halfDuty
              /\ highSideDuty \in 0..65535
              /\ lowSideDuty \in 0..65535
              /\ highSideDuty + lowSideDuty = 65534]_vars

\* a forced commutation at the largest duty cycle has programmed the high
\* phase with 65534 and the low phase with 0
C16_Witness ==
    /\ BLDC_motor.state = BLDC_STARTING
    /\ BLDC_motor.dutyCycle = 65535
    /\ BLDC_motor.startCommutationTimeAbs = 26
    /\ BLDC_motor.sector \in 0..5
    /\ pwm[RoleTable[BLDC_motor.sector + 1][1]].duty = 65534
    /\ pwm[RoleTable[BLDC_motor.sector + 1][2]].duty = 0

\* the sampled voltage v of a phase
PhaseVoltage(v, phase) ==
    CASE phase = MPWM_PH_A -> v[1]
      [] phase = MPWM_PH_B -> v[2]
      [] phase = MPWM_PH_C -> v[3]

\* the zero-crossing condition of a sector: the voltage of the phase that is
\* dormant in the sector is below neutral (odd sector) or above it (even)
CrossingExpected(sector, v, neutralVoltage) ==
    LET dormantVoltage == PhaseVoltage(v, RoleTable[sector + 1][3])
    IN IF sector % 2 = 1
       THEN dormantVoltage < neutralVoltage
       ELSE dormantVoltage > neutralVoltage

\* C17: in state Starting with no more than 25 ms elapsed since the last
\* commutation, a sampling event issues exactly one commutation (one cyclic
\* step of the sector) if the zero-crossing condition of the current sector
\* holds for the voltage of its dormant phase, and none otherwise
C17_CommutatesIffZeroCrossing ==
    (pc = "idle" /\ BLDC_motor.state = BLDC_STARTING
     /\ BLDC_motor.sector \in 0..5)
        => \A v \in AdcTriples, vBus \in BusSamples, atNull \in NullSamples :
              LET m == Sampled(BLDC_motor, v)
                  r == StartingCase(m, pwm, vBus \div 2, now, atNull)
              IN ~StallTimeElapsed(m, now)
                    => IF CrossingExpected(m.sector, v, vBus \div 2)
                       THEN /\ r.comm = 1
                            /\ r.motor.sector
                                  = CyclicStep(m.sector, m.direction)
                       ELSE /\ r.comm = 0
                            /\ r.motor.sector = m.sector

\* C18: the sampling handler never runs in state Starting (where it reads
\* the dormant phase's voltage through dormantPhasePtr) while the reference
\* is NULL, in any interleaving with the foreground
C18_DormantRefNeverNull ==
    [][(BLDC_motor.state = BLDC_STARTING
        /\ BLDC_motor.dormantPhasePtr = NULL)
        => ~BLDC_adcInterrupt]_vars

VoltageRef(phase) ==
    CASE phase = MPWM_PH_A -> PtrPhaseA
      [] phase = MPWM_PH_B -> PtrPhaseB
      [] phase = MPWM_PH_C -> PtrPhaseC

\* the programmed outputs and the dormant-phase reference agree with the
\* current sector: its dormant phase is the one phase programmed dormant,
\* its high and low phases are in drive mode, and dormantPhasePtr designates
\* the dormant phase
OutputsAgreeWithSector ==
    /\ BLDC_motor.sector \in 0..5
    /\ LET roles == RoleTable[BLDC_motor.sector + 1]
       IN /\ pwm[roles[1]].mode = MPWM_HI_STATE
          /\ pwm[roles[2]].mode = MPWM_HI_STATE
          /\ pwm[roles[3]].mode = MPWM_DORMANT
          /\ BLDC_motor.dormantPhasePtr = VoltageRef(roles[3])

\* C20: whenever the state is Starting and the foreground is not inside
\* BLDC_startMotor (its commutation included), the outputs and the
\* dormant-phase reference agree with the sector
C20_AgreeOutsideStart ==
    (BLDC_motor.state = BLDC_STARTING
     /\ pc \notin StartInProgress \cup {"start161", "start162"})
        => OutputsAgreeWithSector

====
